---------------------------- MODULE Spec2Model ----------------------------
(***************************************************************************)
(* Model of translate/coroutines.py: the push pipeline                     *)
(*     source -> spool -> set_task -> write_stream                         *)
(* driven by one main thread, with the translation calls running on the    *)
(* threads of a ThreadPoolExecutor.                                        *)
(*                                                                         *)
(* The three coroutines call each other synchronously (send / close), so   *)
(* the main thread is one control flow whose position is pc.  The only     *)
(* concurrency is between the main thread and the workers: the main        *)
(* thread observes a future with done(), waits for it in result(), and     *)
(* waits for all of them in shutdown(wait=True).                           *)
(*                                                                         *)
(* Strings are kept exactly, run-length encoded: a string is a sequence of *)
(* runs <<c, n>> (n >= 1 copies of the character c), adjacent runs having  *)
(* different characters.  "a" stands for any character other than the      *)
(* space, the only character str.partition(' ') looks at.                  *)
(***************************************************************************)
EXTENDS Integers, Sequences, FiniteSets, TLC

VARIABLES
    input,          \* sys.stdin: the lines not yet read
    maxlen,         \* spool's parameter maxlen
    translit,       \* set_task's parameter translit
    debug,          \* __debug__: FALSE when python runs with -O (asserts stripped)
    pc,             \* the code the main thread is in
    srcpc,          \* position of source: "for" (line 183) or "while" (line 185)
    closing,        \* spool is in its GeneratorExit handler
    line,           \* source: the local `line`
    words,          \* spool: the local `words`
    text,           \* spool: the local `text`
    queue,          \* set_task: the local `queue` (futures, by job number)
    fut,            \* the futures: job number -> [done, res]
    fetching,       \* the future the main thread is calling result() on
    fidx,           \* set_task line 141: position of map(result, queue)
    pool_shutdown,  \* workers.shutdown(wait=True) has returned
    ended,          \* the set_task generator has finished (return or exception)
    exc,            \* the exception that propagated out of the pipeline
    sent,           \* history: the fragments source has sent, in order
    lineStart,      \* history: Len(sent) when the current line was read
    curline,        \* history: the current line as read
    batches,        \* history: the tasks spool has sent to set_task, in order
    prevwords,      \* history: `words` before the last fragment was merged
    sink,           \* history: the jobs whose result was passed to write_stream
    out             \* sys.stdout: what has been printed

vars == <<input, maxlen, translit, debug, pc, srcpc, closing, line, words, text,
          queue, fut, fetching, fidx, pool_shutdown, ended, exc, sent,
          lineStart, curline, batches, prevwords, sink, out>>

-----------------------------------------------------------------------------
(* Bounds of the model *)

MaxLines == 1       \* number of lines on sys.stdin

-----------------------------------------------------------------------------
(* Python values *)

\* int() / str() and the values built from them carry their type, which
\* accumulator inspects with isinstance.
PyInt(n) == [t |-> "int", v |-> n]
PyStr(s) == [t |-> "str", v |-> s]

RECURSIVE StrLen(_)
\* len(s)
StrLen(s) == IF s = <<>> THEN 0 ELSE s[1][2] + StrLen(Tail(s))

\* s + t
Cat(s, t) ==
    IF s = <<>> THEN t
    ELSE IF t = <<>> THEN s
    ELSE IF s[Len(s)][1] = t[1][1]
         THEN SubSeq(s, 1, Len(s) - 1)
              \o << <<t[1][1], s[Len(s)][2] + t[1][2]>> >>
              \o Tail(t)
         ELSE s \o t

\* the string made of the single character c
Char(c) == << <<c, 1>> >>

RECURSIVE ConcatAll(_)
\* ''.join(seq)
ConcatAll(seq) == IF seq = <<>> THEN <<>> ELSE Cat(Head(seq), ConcatAll(Tail(seq)))

SPACE == Char(" ")

\* index of the first run of spaces of s, 0 when s has no space
FirstSep(s) ==
    IF \E i \in 1..Len(s) : s[i][1] = " "
    THEN CHOOSE i \in 1..Len(s) :
            /\ s[i][1] = " "
            /\ \A j \in 1..(i - 1) : s[j][1] # " "
    ELSE 0

\* s.partition(' '): <<init, sep, rest>>
partition(s) ==
    LET i == FirstSep(s) IN
    IF i = 0 THEN <<s, <<>>, <<>>>>
    ELSE << SubSeq(s, 1, i - 1),
            SPACE,
            (IF s[i][2] > 1 THEN << <<" ", s[i][2] - 1>> >> ELSE <<>>)
                \o SubSeq(s, i + 1, Len(s)) >>

-----------------------------------------------------------------------------
(* Pure functions of the module *)

\* accumulator with the string case returning the update alone
accumulator_replace(init, update) ==
    IF init.t = "int"
    THEN PyInt(init.v + StrLen(update))
    ELSE PyStr(update)

\* accumulator with the integer case returning the length of the update alone
accumulator_len(init, update) ==
    IF init.t = "int"
    THEN PyInt(StrLen(update))
    ELSE PyStr(Cat(init.v, update))

\* accumulator(init, update)
accumulator(init, update) ==
    IF init.t = "int"
    THEN PyInt(init.v + StrLen(update))
    ELSE PyStr(Cat(init.v, update))

RECURSIVE reduceRun(_, _, _)
\* The left fold of accumulator over n copies of the character c, each a
\* string of length 1: the first k[1] of them, then the other k[2], starting
\* from the value `half` the first ones gave.  (Binding k and half over
\* one-element sets has each computed once, before it is used.)
reduceRun(c, n, init) ==
    IF n = 0 THEN init
    ELSE IF n = 1 THEN accumulator(init, Char(c))
    ELSE CHOOSE r \in UNION {
                { reduceRun(c, k[2], half) : half \in { reduceRun(c, k[1], init) } }
                    : k \in { <<n \div 2, n - (n \div 2)>> } } : TRUE

RECURSIVE reduce(_, _)
\* functools.reduce(accumulator, stream, init): iterating a str yields its
\* characters one by one, run after run (s and acc are bound like k and
\* half above)
reduce(stream, init) ==
    IF stream = <<>> THEN init
    ELSE CHOOSE r \in UNION {
                { reduce(Tail(s), acc) : acc \in { reduceRun(s[1][1], s[1][2], init) } }
                    : s \in { stream } } : TRUE

\* the test of the inner loop with <= for <
spool_test_le(w, m) == w.v <= m

\* spool line 161: the test of the inner loop
spool_test(w, m) == w.v < m

\* source line 185: the test of the splitting loop
source_test(l) == StrLen(l) > 500

\* source line 187: the asserted condition
source_assert(init) == StrLen(init) <= 500

\* the split-off fragment without its separator
join_nosep(init, sep) == init

\* source line 188: ''.join([init, sep])
join(init, sep) == Cat(init, sep)

\* set_task line 123
output == IF translit THEN "translit" ELSE "trans"

\* what print writes: <<job, i>> for the output field of sentence i of the
\* result of job `job`, NL for '\n'
NL == <<0, 0>>

\* The segments write_stream prints for the sentences from position i on,
\* up to the first sentence that lacks the output field
RECURSIVE printed(_, _, _, _)
printed(job, sentences, field, i) ==
    IF i > Len(sentences) \/ field \notin sentences[i] THEN <<>>
    ELSE << <<job, i>> >> \o printed(job, sentences, field, i + 1)

\* a lenient write_stream: a sentence without the output field is skipped
write_stream_lenient(job, sentences, field) ==
    [out |-> [i \in 1..Cardinality({k \in 1..Len(sentences) : field \in sentences[k]})
                 |-> <<job, i>>] \o <<NL>>,
     exc |-> "none"]

\* write_stream without the final printer('\n')
write_stream_noterminator(job, sentences, field) ==
    IF debug /\ field \notin sentences[1]
    THEN [out |-> <<>>, exc |-> "AssertionError"]
    ELSE IF \E i \in 1..Len(sentences) : field \notin sentences[i]
         THEN [out |-> printed(job, sentences, field, 1), exc |-> "KeyError"]
         ELSE [out |-> printed(job, sentences, field, 1), exc |-> "none"]

\* write_stream(script, output), script being the result of job `job` whose
\* sentences are given by the set of fields each has:
\* what it prints, and the exception it ends with ("none": it returns)
write_stream(job, sentences, field) ==
    IF debug /\ field \notin sentences[1]
    THEN [out |-> <<>>, exc |-> "AssertionError"]
    ELSE IF \E i \in 1..Len(sentences) : field \notin sentences[i]
         THEN [out |-> printed(job, sentences, field, 1), exc |-> "KeyError"]
         ELSE [out |-> printed(job, sentences, field, 1) \o <<NL>>, exc |-> "none"]

\* a GeneratorExit handler of spool that sends a fresh str() for the text
exit_task_fresh(t) == PyStr(<<>>)

\* spool line 171: what the GeneratorExit handler sends to set_task
exit_task(t) == t

\* set_task line 127
cpu_count == 1
maxwork == cpu_count * 32

\* a pop that hands out the head of the list while removing its last element
pop_head(q) == [item |-> q[1], rest |-> SubSeq(q, 1, Len(q) - 1)]

\* first(queue), queue.pop(): the element removed and the list left
first(q) == q[1]
pop(q) == [item |-> q[Len(q)], rest |-> SubSeq(q, 1, Len(q) - 1)]

\* done(future)
done(j) == fut[j].done

-----------------------------------------------------------------------------
(* Inputs *)

A(n) == << <<"a", n>> >>

Lines ==
    { A(3),                                 \* a short line
      Cat(A(499), Cat(SPACE, A(499))),      \* split into 500 + 499
      Cat(A(500), Cat(SPACE, A(2))),        \* a first word of exactly 500
      Cat(A(500), SPACE),                   \* ... with nothing after the space
      A(501) }                              \* one word over the limit

Inputs == UNION { [1..n -> Lines] : n \in 0..MaxLines }

Thresholds == {1, 501}

BOTH == {"trans", "translit"}

\* what translator(task) does: it returns a result, whose sentences are given
\* by the fields each has, or it raises
Returns(sentences) == [ok |-> TRUE, sentences |-> sentences]
Raises == [ok |-> FALSE, sentences |-> <<>>]
Results == { Returns(<<BOTH, BOTH>>), Returns(<<{"trans"}, BOTH>>), Raises }

-----------------------------------------------------------------------------
(* The pipeline *)

NoExc == [type |-> "none", job |-> 0]

Init ==
    /\ input \in Inputs
    /\ maxlen \in Thresholds
    /\ translit \in BOOLEAN
    /\ debug \in BOOLEAN
    /\ pc = "source"
    /\ srcpc = "for"
    /\ closing = FALSE
    /\ line = <<>>
    /\ words = PyInt(0)
    /\ text = PyStr(<<>>)
    /\ queue = <<>>
    /\ fut = <<>>
    /\ fetching = 0
    /\ fidx = 0
    /\ pool_shutdown = FALSE
    /\ ended = FALSE
    /\ exc = NoExc
    /\ sent = <<>>
    /\ lineStart = 0
    /\ curline = <<>>
    /\ batches = <<>>
    /\ prevwords = 0
    /\ sink = <<>>
    /\ out = <<>>

\* set_task lines 133-134, entered from spool's iterable.send(t): the task
\* is submitted to the pool and its future appended to the queue; the
\* drain loop of line 136 comes next.  (w and prev, the count of the batch and
\* the count before its last fragment, are kept for the record only.)
Submit(t, w, prev, final) ==
    /\ batches' = Append(batches, [text |-> t.v, words |-> w.v,
                                   prev |-> prev, final |-> final])
    /\ fut' = Append(fut, [done |-> FALSE, res |-> Raises])
    /\ queue' = Append(queue, Len(fut) + 1)
    /\ pc' = "drain"

\* spool lines 162-166, entered from source's target.send(frag): the
\* fragment is merged, then either spool yields again (source goes on at r)
\* or it sends the text to set_task.
Send(frag, r) ==
    LET t == reduce(frag, text)
        w == reduce(frag, words)
    IN  /\ sent' = Append(sent, frag)
        /\ text' = t
        /\ words' = w
        /\ prevwords' = words.v
        /\ srcpc' = r
        /\ IF spool_test(w, maxlen)
           THEN /\ pc' = "source"
                /\ UNCHANGED <<batches, fut, queue>>
           ELSE Submit(t, w, words.v, FALSE)

\* source line 183: the next line of sys.stdin; at end of input line 192,
\* target.close(), which raises GeneratorExit in spool at line 162, whose
\* handler sends the remaining text to set_task (line 171).
SourceFor ==
    /\ pc = "source"
    /\ srcpc = "for"
    /\ IF input # <<>>
       THEN /\ line' = Head(input)
            /\ input' = Tail(input)
            /\ curline' = Head(input)
            /\ lineStart' = Len(sent)
            /\ srcpc' = "while"
            /\ UNCHANGED <<pc, closing, batches, fut, queue>>
       ELSE /\ closing' = TRUE
            /\ Submit(exit_task(text), words, prevwords, TRUE)
            /\ UNCHANGED <<line, input, curline, lineStart, srcpc>>
    /\ UNCHANGED <<maxlen, translit, debug, words, text, fetching, fidx,
                   pool_shutdown, ended, exc, sent, prevwords, sink, out>>

\* source lines 185-190: one pass of the splitting loop, or the send of
\* what is left of the line.
SourceWhile ==
    /\ pc = "source"
    /\ srcpc = "while"
    /\ IF source_test(line)
       THEN LET p == partition(line) IN
            IF debug /\ ~source_assert(p[1])
            THEN /\ exc' = [type |-> "AssertionError", job |-> 0]
                 /\ pc' = "raised"
                 /\ UNCHANGED <<line, sent, text, words, prevwords, srcpc,
                                batches, fut, queue>>
            ELSE /\ line' = p[3]
                 /\ Send(join(p[1], p[2]), "while")
                 /\ UNCHANGED exc
       ELSE /\ Send(line, "for")
            /\ UNCHANGED <<line, exc>>
    /\ UNCHANGED <<input, maxlen, translit, debug, closing, fetching, fidx,
                   pool_shutdown, ended, lineStart, curline, sink, out>>

\* set_task line 136: the test of the drain loop.  When it holds, line 137
\* pops a future and calls result() on it.  When it fails, set_task yields:
\* the send of spool returns, and spool either closes set_task (line 172:
\* GeneratorExit at line 133, handled at line 140) or resets its batch
\* (lines 167-168) and tests its loop again (line 161).
Drain ==
    /\ pc = "drain"
    /\ IF queue # <<>> /\ done(first(queue))
       THEN /\ fetching' = pop(queue).item
            /\ queue' = pop(queue).rest
            /\ pc' = "result"
            /\ UNCHANGED <<words, text, batches, fut>>
       ELSE /\ UNCHANGED fetching
            /\ IF closing
               THEN /\ pc' = "shutdown"
                    /\ UNCHANGED <<words, text, batches, fut, queue>>
               ELSE /\ words' = PyInt(0)
                    /\ text' = PyStr(<<>>)
                    /\ IF spool_test(PyInt(0), maxlen)
                       THEN /\ pc' = "source"
                            /\ UNCHANGED <<batches, fut, queue>>
                       ELSE Submit(PyStr(<<>>), PyInt(0), 0, FALSE)
    /\ UNCHANGED <<input, maxlen, translit, debug, srcpc, closing, line, fidx,
                   pool_shutdown, ended, exc, sent, lineStart, curline,
                   prevwords, sink, out>>

\* a drain that skips a result whose fetch raises
Deliver_swallow(j, next) ==
    IF ~fut[j].res.ok
    THEN /\ pc' = next
         /\ UNCHANGED <<exc, ended, sink, out>>
    ELSE LET w == write_stream(j, fut[j].res.sentences, output) IN
         /\ sink' = Append(sink, j)
         /\ out' = out \o w.out
         /\ IF w.exc = "none"
            THEN /\ pc' = next
                 /\ UNCHANGED <<exc, ended>>
            ELSE /\ exc' = [type |-> w.exc, job |-> j]
                 /\ pc' = "raised"
                 /\ ended' = TRUE

\* result(future) has returned or raised for job j, and on a return
\* stream(...) has run (write_stream); `next` is where set_task goes on.
Deliver(j, next) ==
    IF ~fut[j].res.ok
    THEN /\ exc' = [type |-> "TranslationError", job |-> j]
         /\ pc' = "raised"
         /\ ended' = TRUE
         /\ UNCHANGED <<sink, out>>
    ELSE LET w == write_stream(j, fut[j].res.sentences, output) IN
         /\ sink' = Append(sink, j)
         /\ out' = out \o w.out
         /\ IF w.exc = "none"
            THEN /\ pc' = next
                 /\ UNCHANGED <<exc, ended>>
            ELSE /\ exc' = [type |-> w.exc, job |-> j]
                 /\ pc' = "raised"
                 /\ ended' = TRUE

\* set_task line 137: result() blocks until the popped future is done
Result ==
    /\ pc = "result"
    /\ done(fetching)
    /\ Deliver(fetching, "drain")
    /\ UNCHANGED <<input, maxlen, translit, debug, srcpc, closing, line, words,
                   text, queue, fut, fetching, fidx, pool_shutdown, sent,
                   lineStart, curline, batches, prevwords>>

\* shutdown(wait=False): it returns at once
Shutdown_nowait ==
    /\ pc = "shutdown"
    /\ pool_shutdown' = TRUE
    /\ fidx' = 1
    /\ pc' = "final"
    /\ UNCHANGED <<input, maxlen, translit, debug, srcpc, closing, line, words,
                   text, queue, fut, fetching, ended, exc, sent, lineStart,
                   curline, batches, prevwords, sink, out>>

\* a close handler that waits for the queue to be empty
Shutdown_waitqueue ==
    /\ pc = "shutdown"
    /\ queue = <<>>
    /\ pool_shutdown' = TRUE
    /\ fidx' = 1
    /\ pc' = "final"
    /\ UNCHANGED <<input, maxlen, translit, debug, srcpc, closing, line, words,
                   text, queue, fut, fetching, ended, exc, sent, lineStart,
                   curline, batches, prevwords, sink, out>>

\* set_task line 140: shutdown(wait=True) returns when every submitted call
\* has finished
Shutdown ==
    /\ pc = "shutdown"
    /\ \A j \in 1..Len(fut) : done(j)
    /\ pool_shutdown' = TRUE
    /\ fidx' = 1
    /\ pc' = "final"
    /\ UNCHANGED <<input, maxlen, translit, debug, srcpc, closing, line, words,
                   text, queue, fut, fetching, ended, exc, sent, lineStart,
                   curline, batches, prevwords, sink, out>>

\* set_task line 141: the next future of the queue, in list order; after
\* the last one set_task returns, and so do spool and source.
Final ==
    /\ pc = "final"
    /\ IF fidx > Len(queue)
       THEN /\ pc' = "done"
            /\ ended' = TRUE
            /\ UNCHANGED <<fidx, exc, sink, out>>
       ELSE /\ fidx' = fidx + 1
            /\ Deliver(queue[fidx], "final")
    /\ UNCHANGED <<input, maxlen, translit, debug, srcpc, closing, line, words,
                   text, queue, fut, fetching, pool_shutdown, sent, lineStart,
                   curline, batches, prevwords>>

\* A worker thread finishes translator(task) for job j with result r.  The
\* pool runs at most maxwork calls at a time, oldest first.
Worker(j, r) ==
    /\ j \in 1..Len(fut)
    /\ ~done(j)
    /\ Cardinality({i \in 1..(j - 1) : ~done(i)}) < maxwork
    /\ fut' = [fut EXCEPT ![j] = [done |-> TRUE, res |-> r]]
    /\ UNCHANGED <<input, maxlen, translit, debug, pc, srcpc, closing, line,
                   words, text, queue, fetching, fidx, pool_shutdown, ended,
                   exc, sent, lineStart, curline, batches, prevwords, sink, out>>

Next ==
    \/ SourceFor
    \/ SourceWhile
    \/ Drain
    \/ Result
    \/ Shutdown
    \/ Final
    \/ \E j \in 1..Len(fut), r \in Results : Worker(j, r)

Spec == Init /\ [][Next]_vars

\* The main thread runs whenever it is not blocked, and the pool, which has
\* more threads than there are calls, finishes every call it was given.
Main == SourceFor \/ SourceWhile \/ Drain \/ Result \/ Shutdown \/ Final
Pool == \E j \in 1..Len(fut), r \in Results : Worker(j, r)
FairSpec == Spec /\ WF_vars(Main) /\ WF_vars(Pool)

-----------------------------------------------------------------------------
(* Properties *)

Range(seq) == { seq[i] : i \in 1..Len(seq) }

\* the number of jobs submitted so far
N == Len(fut)

\* the translation call of job j has finished by raising / by returning
Failed(j) == done(j) /\ ~fut[j].res.ok
Succeeded(j) == done(j) /\ fut[j].res.ok

\* the number of '\n' in what has been printed
Newlines == Cardinality({ p \in 1..Len(out) : out[p] = NL })

\* the texts of the batches handed to set_task, in order
BatchTexts == [i \in 1..Len(batches) |-> batches[i].text]

\* the fragments sent for the current line
LineFrags == SubSeq(sent, lineStart + 1, Len(sent))

\* C1: the results passed to the Sink are, at every moment of the run, the
\* results of jobs 1, 2, 3, ... in submission order.
C1_SubmissionOrder == \A i \in 1..Len(sink) : sink[i] = i

\* C2: once the close of set_task has returned (which it does only when no
\* translation call and no write has failed), every one of the N jobs is
\* complete and its result has been passed to the Sink exactly once.
C2_DrainComplete ==
    pc = "done" =>
        /\ Len(sink) = N
        /\ \A j \in 1..N :
              /\ done(j)
              /\ Cardinality({ i \in 1..Len(sink) : sink[i] = j }) = 1

C2_Witness ==
    /\ pc = "done"
    /\ N >= 3
    /\ Len(queue) >= 1
    /\ Len(queue) < N

\* C3: every fragment source has sent has at most 500 characters, the
\* trailing separator of a split-off fragment included.
C3_FragmentBound == \A i \in 1..Len(sent) : StrLen(sent[i]) <= 500

\* C4: when the failure of the translation of job k propagates out of the
\* pipeline and the translations of all jobs before k have succeeded, the
\* results of all jobs before k have been passed to the Sink.
C4_EarlierDelivered ==
    \A k \in 1..N :
        ( /\ pc = "raised"
          /\ exc = [type |-> "TranslationError", job |-> k]
          /\ \A j \in 1..(k - 1) : Succeeded(j) )
        => \A j \in 1..(k - 1) : j \in Range(sink)

\* C5: when the translation of job k has failed, the result of no job
\* submitted after k has been passed to the Sink.
C5_LaterBlocked ==
    \A k \in 1..N : Failed(k) => \A j \in (k + 1)..N : j \notin Range(sink)

\* C6: when the set_task generator has ended, by return or by exception, the
\* worker pool has been shut down.
C6_PoolReleased == ended => pool_shutdown

\* C7 as stated: a run that has ended normally has written exactly one
\* newline, the last thing written.
C7_SingleTerminator ==
    (pc = "done" /\ Len(sink) >= 1) =>
        /\ Newlines = 1
        /\ out[Len(out)] = NL

\* C7 as amended: every newline written directly follows the last segment
\* of a result, every completed result is followed by its newline, and a
\* run that has ended normally has written exactly N newlines for its N
\* results, the last of them ending the output; the final shutdown writes
\* nothing of its own.
C7_TerminatorPerResult ==
    /\ \A p \in 1..Len(out) :
          out[p] = NL =>
              /\ p > 1
              /\ out[p - 1] # NL
              /\ out[p - 1][2] = Len(fut[out[p - 1][1]].res.sentences)
    /\ pc = "done" =>
          /\ Newlines = N
          /\ out[Len(out)] = NL
          /\ \A j \in 1..N : \E p \in 1..(Len(out) - 1) :
                /\ out[p] = <<j, Len(fut[j].res.sentences)>>
                /\ out[p + 1] = NL

C7_Witness ==
    /\ pc = "done"
    /\ Len(sink) >= 2
    /\ Newlines >= 2

\* C8: once spool has handled the close of its upstream, the concatenation
\* of the texts of all batches handed to set_task, the final one included,
\* equals the concatenation of all fragments received.
C8_NoLoss == closing => ConcatAll(BatchTexts) = ConcatAll(sent)

C8_Witness ==
    /\ closing
    /\ Len(sent) >= 2
    /\ Len(batches) >= 2
    /\ \E i \in 1..Len(sent) : sent[i] # <<>>

\* C9: for a threshold >= 1, every batch flushed before the shutdown flush
\* has a count >= the threshold, and the count before its last fragment was
\* merged was < the threshold.
C9_FlushOnCrossing ==
    maxlen >= 1 =>
        \A i \in 1..Len(batches) :
            ~batches[i].final =>
                /\ batches[i].words >= maxlen
                /\ batches[i].prev < maxlen

C9_Witness ==
    \E i \in 1..Len(batches) :
        /\ ~batches[i].final
        /\ batches[i].prev > 0
        /\ batches[i].words > maxlen

\* C10: when source is done with a line (it is back at its for loop, or
\* inside the send of what was left of the line), the fragments sent for
\* the line concatenate to the line; while it is splitting, the fragments
\* sent so far followed by the rest of the line do.
C10_Reconstruct ==
    /\ srcpc = "for" => ConcatAll(LineFrags) = curline
    /\ srcpc = "while" => Cat(ConcatAll(LineFrags), line) = curline

C10_Witness ==
    /\ srcpc = "for"
    /\ Len(LineFrags) >= 2
    /\ LineFrags[1] # <<>>
    /\ FirstSep(curline) # 0

\* the close of set_task (spool line 172) has been called
Closed == pc \in {"shutdown", "final", "done"} \/ pool_shutdown

\* the batches sent by spool's GeneratorExit handler
FinalBatches == { i \in 1..Len(batches) : batches[i].final }

\* C11: once spool has been closed it has handed exactly one final batch to
\* set_task, the text it was holding (empty or not), and no batch after it;
\* before that it has handed none; and set_task is closed only after it.
C11_FinalFlushOnce ==
    /\ closing =>
          /\ FinalBatches = {Len(batches)}
          /\ batches[Len(batches)].text = text.v
    /\ ~closing => FinalBatches = {}
    /\ Closed => closing

C11_Witness ==
    /\ Closed
    /\ Len(batches) >= 2
    /\ batches[Len(batches)].text = <<>>

\* C12: a fragment that source has sent and that holds no space (a single
\* token) has at most 500 characters: an over-long token is never forwarded.
C12_NoLongToken ==
    \A i \in 1..Len(sent) : FirstSep(sent[i]) = 0 => StrLen(sent[i]) <= 500

\* the result of job j lacks the output field in its first sentence
FirstLacks(j) == fut[j].res.ok /\ output \notin fut[j].res.sentences[1]

\* C13: a step that passes to write_stream a result whose first sentence
\* lacks the output field ends in an exception and leaves the output as it
\* was.
C13_FailFast ==
    [][ (sink' # sink /\ FirstLacks(sink'[Len(sink')]))
            => (out' = out /\ pc' = "raised"
                /\ exc'.type \in {"AssertionError", "KeyError"}) ]_vars

C13_Witness ==
    /\ pc = "raised"
    /\ exc.type \in {"AssertionError", "KeyError"}
    /\ exc.job >= 1
    /\ FirstLacks(exc.job)
    /\ sink[Len(sink)] = exc.job
    /\ out # <<>>

\* C14: whenever set_task is inside result() at line 137, the future it asked
\* is already done: the drain never waits for a worker.
C14_DrainNeverWaits == pc = "result" => done(fetching)

\* len(s.split()): the number of whitespace-separated words of s
WordCount(s) == Cardinality({ i \in 1..Len(s) : s[i][1] # " " })

\* the fragment received by the step, when the step is the receipt of one
Received == Len(sent') > Len(sent)
NewFragment == sent'[Len(sent')]

\* C15 as stated: on receiving a fragment spool adds the number of words of
\* the fragment to its count and appends the fragment to its text.
C15_CountsWords ==
    [][ Received => /\ words'.v = words.v + WordCount(NewFragment)
                    /\ text'.v = Cat(text.v, NewFragment) ]_vars

\* C15 as amended: on receiving a fragment spool adds the number of
\* characters of the fragment to its count and appends the fragment to its
\* text.
C15_CountsCharacters ==
    [][ Received => /\ words'.v = words.v + StrLen(NewFragment)
                    /\ text'.v = Cat(text.v, NewFragment) ]_vars

C15_Witness ==
    /\ Len(sent) >= 2
    /\ prevwords > 0
    /\ words.v = prevwords + StrLen(sent[Len(sent)])
    /\ WordCount(sent[Len(sent)]) = 1
    /\ StrLen(sent[Len(sent)]) > 1

\* C16: the count of every batch handed to set_task is at most the
\* threshold.
C16_WithinThreshold == \A i \in 1..Len(batches) : batches[i].words <= maxlen

\* the results written by the shutdown drain (line 141) so far
FinalDelivered == SubSeq(sink, Len(sink) - (fidx - 1) + 1, Len(sink))

\* C17: during and after the shutdown drain every job is complete; the
\* jobs left in the queue are in submission order and their results are
\* written in that order; when set_task has returned all of them have been.
C17_ShutdownDrain ==
    pc \in {"final", "done"} =>
        /\ \A j \in 1..N : done(j)
        /\ \A a, b \in 1..Len(queue) : a < b => queue[a] < queue[b]
        /\ FinalDelivered = SubSeq(queue, 1, fidx - 1)
        /\ pc = "done" => fidx = Len(queue) + 1

C17_Witness ==
    /\ pc = "done"
    /\ Len(queue) >= 2
    /\ FinalDelivered = queue

\* C18: a run does not end normally when a translation call has failed, no
\* result of a failed call is ever passed to the Sink, and the exception of
\* a failed call leaves the pipeline as soon as result() is asked for it.
C18_NeverSwallowed ==
    /\ pc = "done" => \A j \in 1..N : ~Failed(j)
    /\ \A j \in Range(sink) : ~Failed(j)
    /\ exc.type = "TranslationError" => (pc = "raised" /\ Failed(exc.job))
    /\ pc \in {"drain", "final"} =>
          \A j \in 1..N : Failed(j) => (j \in Range(queue) /\ j \notin Range(sink))

C18_Witness ==
    /\ pc = "raised"
    /\ exc.type = "TranslationError"
    /\ Len(sink) >= 1
    /\ pool_shutdown

\* C19: with fair workers and a main thread that runs when it can, a run in
\* which nothing raises ends: source has read all its input and closed
\* spool, spool has flushed and closed set_task, and set_task has shut the
\* pool down and returned with every result written.
C19_Terminates ==
    [](pc # "raised") =>
        <>( /\ pc = "done"
            /\ input = <<>>
            /\ closing
            /\ pool_shutdown
            /\ ended
            /\ Len(sink) = N )

C19_Witness ==
    /\ pc = "done"
    /\ input = <<>>
    /\ Len(sent) >= 2
    /\ N >= 2
    /\ pool_shutdown
    /\ ended

\* C20: for a threshold >= 1, whenever spool waits for a fragment its count
\* is below the threshold and is the length of its text, which holds the
\* fragments received since the last flush; and a batch is handed to
\* set_task only by the step that receives a fragment or closes spool, one
\* batch at most.
C20_WaitsBelowThreshold ==
    /\ [](maxlen >= 1 =>
            (pc = "source" =>
                /\ words.v < maxlen
                /\ words.v = StrLen(text.v)
                /\ Cat(ConcatAll(BatchTexts), text.v) = ConcatAll(sent)))
    /\ [][ (maxlen >= 1 /\ batches' # batches) =>
              /\ Len(batches') = Len(batches) + 1
              /\ Received \/ (closing' /\ ~closing) ]_vars

C20_Witness ==
    /\ pc = "source"
    /\ srcpc = "for"
    /\ Len(batches) >= 1
    /\ words.v = 0
    /\ text.v = <<>>
    /\ Len(sent) >= 2

=============================================================================
